---------------------------- MODULE Spec2Model ----------------------------
(***************************************************************************)
(* Model of the public-domain book checker: the BookAPI service            *)
(* (scripts/api.js), the BookSearch incremental search (scripts/search.js) *)
(* and the PublicDomainApp classifier (scripts/app.js).                    *)
(*                                                                         *)
(* JavaScript strings are sequences of one-character strings, so that      *)
(* toLowerCase, replace, trim, includes and the regular expressions are    *)
(* computed, not assumed.  An optional value (undefined / null) is None,   *)
(* a present one is Some(v).                                               *)
(***************************************************************************)
EXTENDS Integers, Sequences, FiniteSets, TLC

None == <<>>
Some(v) == <<v>>

(***************************************************************************)
(* Strings                                                                 *)
(***************************************************************************)
UpperChars == <<"A","B","C","D","E","F","G","H","I","J","K","L","M",
                "N","O","P","Q","R","S","T","U","V","W","X","Y","Z">>
LowerChars == <<"a","b","c","d","e","f","g","h","i","j","k","l","m",
                "n","o","p","q","r","s","t","u","v","w","x","y","z">>
DigitChars == {"0","1","2","3","4","5","6","7","8","9"}

Range(s) == { s[i] : i \in DOMAIN s }

UpperSet == Range(UpperChars)
\* the lower-case letter of every upper-case letter
LowerOf ==
    [ c \in UpperSet |-> LowerChars[CHOOSE i \in DOMAIN UpperChars : UpperChars[i] = c] ]

\* String.prototype.toLowerCase on one character
LowerChar(c) == IF c \in UpperSet THEN LowerOf[c] ELSE c

\* String.prototype.toLowerCase
toLowerCase(s) == [ i \in DOMAIN s |-> LowerChar(s[i]) ]

\* the regular-expression class \w
WordChars == UpperSet \cup Range(LowerChars) \cup DigitChars \cup {"_"}
IsWordChar(c) == c \in WordChars

\* the regular-expression class \s
IsSpaceChar(c) == c = " "

\* s.replace(/[^\w\s]/g, '')
KeepWordOrSpace(c) == IsWordChar(c) \/ IsSpaceChar(c)
StripPunctuation(s) == SelectSeq(s, KeepWordOrSpace)

\* String.prototype.trim
RECURSIVE TrimLeft(_)
TrimLeft(s) == IF s # <<>> /\ IsSpaceChar(Head(s)) THEN TrimLeft(Tail(s)) ELSE s
RECURSIVE TrimRight(_)
TrimRight(s) ==
    IF s # <<>> /\ IsSpaceChar(s[Len(s)]) THEN TrimRight(SubSeq(s, 1, Len(s) - 1)) ELSE s
trim(s) == TrimRight(TrimLeft(s))

\* String.prototype.includes
includes(haystack, needle) ==
    \E i \in 1..(Len(haystack) - Len(needle) + 1) :
        SubSeq(haystack, i, i + Len(needle) - 1) = needle

\* RegExp.prototype.test for a pattern p1.*p2.*...pn of literal pieces
RECURSIVE MatchPieces(_, _)
MatchPieces(pieces, s) ==
    IF pieces = <<>> THEN TRUE
    ELSE LET p == Head(pieces) IN
         \E i \in 1..(Len(s) - Len(p) + 1) :
            /\ SubSeq(s, i, i + Len(p) - 1) = p
            /\ MatchPieces(Tail(pieces), SubSeq(s, i + Len(p), Len(s)))

\* RegExp.prototype.test for an alternation of such patterns
RegexTest(alternatives, s) == \E a \in alternatives : MatchPieces(a, s)

(***************************************************************************)
(* String literals of the program and of the modelled inputs              *)
(***************************************************************************)
UnknownTitle == <<"U","n","k","n","o","w","n"," ","T","i","t","l","e">>
UnknownAuthor == <<"U","n","k","n","o","w","n"," ","A","u","t","h","o","r">>
StrUnknown == <<"u","n","k","n","o","w","n">>
StrCthulhu == <<"c","t","h","u","l","h","u">>
StrLovecraft == <<"l","o","v","e","c","r","a","f","t">>
StrHardy == <<"h","a","r","d","y">>
StrTess == <<"t","e","s","s">>
StrUrbervilles == <<"u","r","b","e","r","v","i","l","l","e","s">>
StrDickens == <<"d","i","c","k","e","n","s">>
StrShakespeare == <<"s","h","a","k","e","s","p","e","a","r","e">>
StrAusten == <<"a","u","s","t","e","n">>

(***************************************************************************)
(* BookAPI: year validation (api.js)                                       *)
(***************************************************************************)
\* new Date().getFullYear()
CurrentYear == 2026

\* isValidYear with the basic range check only
isValidYearBasic(year) ==
    IF year = None \/ year[1] = 0 \/ year[1] < 1000 \/ year[1] > CurrentYear
    THEN FALSE
    ELSE TRUE

\* isValidYear(year); year is None (undefined / null) or Some(integer)
isValidYear(year) ==
    IF year = None \/ year[1] = 0 \/ year[1] < 1000 \/ year[1] > CurrentYear
    THEN FALSE
    ELSE IF year[1] < 1400 THEN FALSE
    ELSE TRUE

\* the suspiciousPatterns table of validateYearAgainstContext
suspiciousPatterns == <<
    [pattern |-> {<<StrCthulhu>>, <<StrLovecraft>>}, minYear |-> 1890, maxYear |-> 1937],
    [pattern |-> {<<StrHardy>>, <<StrTess, StrUrbervilles>>}, minYear |-> 1840, maxYear |-> 1928],
    [pattern |-> {<<StrDickens>>}, minYear |-> 1812, maxYear |-> 1870],
    [pattern |-> {<<StrShakespeare>>}, minYear |-> 1564, maxYear |-> 1616],
    [pattern |-> {<<StrAusten>>}, minYear |-> 1775, maxYear |-> 1817] >>

\* book.title || ''   and   book.title || 'Unknown Title'
TitleOr(book, default) ==
    IF book.title = None \/ book.title[1] = <<>> THEN default ELSE book.title[1]

\* book.author_name || []   and   book.author_name || ['Unknown Author']
AuthorNameOr(book, default) ==
    IF book.author_name = None THEN default ELSE book.author_name[1]

\* a test that looks at the title only
PatternMatchesTitle(check, title, authors) ==
    RegexTest(check.pattern, title)

\* does one entry of the table match the title or some author
PatternMatches(check, title, authors) ==
    \/ RegexTest(check.pattern, title)
    \/ \E i \in DOMAIN authors : RegexTest(check.pattern, toLowerCase(authors[i]))

\* the for loop of validateYearAgainstContext, from entry i on
RECURSIVE ValidateFrom(_, _, _, _)
ValidateFrom(i, year, title, authors) ==
    IF i > Len(suspiciousPatterns) THEN Some(year)
    ELSE LET check == suspiciousPatterns[i] IN
         IF /\ PatternMatches(check, title, authors)
            /\ (year < check.minYear \/ year > check.maxYear)
         THEN None
         ELSE ValidateFrom(i + 1, year, title, authors)

\* validateYearAgainstContext(year, book): None or Some(year)
validateYearAgainstContext(year, book) ==
    ValidateFrom(1, year, toLowerCase(TitleOr(book, <<>>)), AuthorNameOr(book, <<>>))

\* Math.min(...candidates), candidates non-empty
MinOf(candidates) ==
    CHOOSE m \in Range(candidates) : \A x \in Range(candidates) : m <= x

ValidInt(y) == isValidYear(Some(y))

\* getValidatedYear(book): None or Some(year)
getValidatedYear(book) ==
    LET firstYear == book.first_publish_year
        publishYears == book.publish_year
        c1 == IF firstYear # None /\ firstYear[1] # 0 /\ isValidYear(firstYear)
              THEN <<firstYear[1]>> ELSE <<>>
        c2 == IF publishYears # None
              THEN SelectSeq(publishYears[1], ValidInt) ELSE <<>>
        candidates == c1 \o c2
    IN  IF Len(candidates) = 0 THEN None
        ELSE validateYearAgainstContext(MinOf(candidates), book)

(***************************************************************************)
(* BookAPI: reliability and normalisation (api.js)                         *)
(***************************************************************************)
\* assessDataReliability counting the year as delivered, before validation
assessDataReliabilityRawYear(book) ==
    LET s1 == IF /\ book.title # None
                 /\ book.title[1] # <<>>
                 /\ Len(book.title[1]) > 1
                 /\ book.title[1] # UnknownTitle
              THEN 2 ELSE 0
        s2 == IF book.author_name # None /\ Len(book.author_name[1]) > 0 THEN 2 ELSE 0
        yr == book.first_publish_year
        s3 == IF yr # None /\ yr[1] # 0 THEN 3 ELSE 0
        title == toLowerCase(TitleOr(book, <<>>))
        s4 == IF includes(title, StrUnknown) \/ Len(title) < 3 THEN 2 ELSE 0
        score == s1 + s2 + s3 - s4
    IN  IF score >= 5 THEN "high"
        ELSE IF score >= 3 THEN "medium"
        ELSE IF score >= 1 THEN "low"
        ELSE "invalid"

\* assessDataReliability(book)
assessDataReliability(book) ==
    LET s1 == IF /\ book.title # None
                 /\ book.title[1] # <<>>
                 /\ Len(book.title[1]) > 1
                 /\ book.title[1] # UnknownTitle
              THEN 2 ELSE 0
        s2 == IF book.author_name # None /\ Len(book.author_name[1]) > 0 THEN 2 ELSE 0
        yr == getValidatedYear(book)
        s3 == IF yr # None /\ yr[1] # 0 THEN 3 ELSE 0
        title == toLowerCase(TitleOr(book, <<>>))
        s4 == IF includes(title, StrUnknown) \/ Len(title) < 3 THEN 2 ELSE 0
        score == s1 + s2 + s3 - s4
    IN  IF score >= 5 THEN "high"
        ELSE IF score >= 3 THEN "medium"
        ELSE IF score >= 1 THEN "low"
        ELSE "invalid"

\* the reliabilityOrder table of the sort comparator; None is undefined
reliabilityOrder(r) ==
    CASE r = "high" -> Some(3) [] r = "medium" -> Some(2) [] r = "low" -> Some(1)
      [] OTHER -> None

\* the map callback of processOpenLibraryResultsFiltered (rawData is left out)
OpenLibraryCandidate(book) ==
    [ id |-> book.key,
      title |-> TitleOr(book, UnknownTitle),
      authors |-> AuthorNameOr(book, <<UnknownAuthor>>),
      publishYear |-> getValidatedYear(book),
      source |-> "openlibrary",
      reliability |-> assessDataReliability(book),
      isPublicDomain |-> None ]

NotInvalid(book) == book.reliability # "invalid"

\* a comparator with its operands exchanged: the least reliable sorts first
CompareReliabilityAscending(a, b) ==
    IF a.reliability # b.reliability
    THEN LET oa == reliabilityOrder(a.reliability)
             ob == reliabilityOrder(b.reliability)
         IN  IF oa = None \/ ob = None THEN 0 ELSE oa[1] - ob[1]
    ELSE 0

\* the sort comparator of processOpenLibraryResultsFiltered: negative, 0 or positive.
\* A difference with undefined is NaN, which Array.prototype.sort reads as 0.
CompareReliability(a, b) ==
    IF a.reliability # b.reliability
    THEN LET oa == reliabilityOrder(a.reliability)
             ob == reliabilityOrder(b.reliability)
         IN  IF oa = None \/ ob = None THEN 0 ELSE ob[1] - oa[1]
    ELSE 0

\* insert book behind every entry that does not sort after it (a stable insertion)
RECURSIVE InsertByReliability(_, _)
InsertByReliability(sorted, book) ==
    IF sorted = <<>> THEN <<book>>
    ELSE IF CompareReliability(Head(sorted), book) <= 0
         THEN <<Head(sorted)>> \o InsertByReliability(Tail(sorted), book)
         ELSE <<book>> \o sorted

\* Array.prototype.sort with that comparator (the sort is stable)
RECURSIVE SortByReliability(_)
SortByReliability(books) ==
    IF books = <<>> THEN <<>>
    ELSE InsertByReliability(SortByReliability(SubSeq(books, 1, Len(books) - 1)),
                             books[Len(books)])

\* a filter that keeps every candidate
OpenLibraryFilterNone(books) == books

\* the filter callback of processOpenLibraryResultsFiltered
OpenLibraryFilter(books) == SelectSeq(books, NotInvalid)

\* processOpenLibraryResultsFiltered(data); data.docs is None or Some(array)
processOpenLibraryResultsFiltered(data) ==
    IF data.docs = None THEN <<>>
    ELSE SortByReliability(OpenLibraryFilter(
            [ i \in DOMAIN data.docs[1] |-> OpenLibraryCandidate(data.docs[1][i]) ]))

\* extractYearFromGutenberg(book)
extractYearFromGutenberg(book) ==
    IF book.authors # None /\ Len(book.authors[1]) > 0
    THEN LET author == book.authors[1][1] IN
         IF author.death_year # None /\ author.death_year[1] # 0
         THEN IF author.death_year[1] < 1929
              THEN Some(author.death_year[1] - 10) ELSE None
         ELSE None
    ELSE None

\* book.authors?.map(author => author.name) || ['Unknown Author']
GutenbergAuthors(book) ==
    IF book.authors = None THEN <<UnknownAuthor>>
    ELSE [ i \in DOMAIN book.authors[1] |-> book.authors[1][i].name ]

\* the map callback of processGutenbergResults
GutenbergCandidate(book) ==
    [ id |-> <<"gutenberg_", book.id>>,
      title |-> TitleOr(book, UnknownTitle),
      authors |-> GutenbergAuthors(book),
      publishYear |-> extractYearFromGutenberg(book),
      source |-> "gutenberg",
      reliability |-> "high",
      isPublicDomain |-> Some(TRUE) ]

\* processGutenbergResults(data); data.results is None or Some(array)
processGutenbergResults(data) ==
    IF data.results = None THEN <<>>
    ELSE [ i \in DOMAIN data.results[1] |-> GutenbergCandidate(data.results[1][i]) ]

(***************************************************************************)
(* BookAPI: deduplication (api.js)                                         *)
(***************************************************************************)
\* s.toLowerCase().replace(/[^\w\s]/g, '').trim()
Normalize(s) == trim(StripPunctuation(toLowerCase(s)))

\* the key template `${normalizedTitle}_${normalizedAuthor}`
DedupKey(book) ==
    Normalize(book.title) \o <<"_">> \o
    (IF Len(book.authors) = 0 THEN <<>> ELSE Normalize(book.authors[1]))

\* a findIndex that stops at the first kept entry whatever its key
FindIndexFirst(result, key) ==
    IF result # <<>> THEN 1 ELSE 0

\* result.findIndex(existing => key of existing === key); 0 stands for -1
FindIndex(result, key) ==
    IF \E i \in DOMAIN result : DedupKey(result[i]) = key
    THEN CHOOSE i \in DOMAIN result :
            /\ DedupKey(result[i]) = key
            /\ \A j \in 1..(i - 1) : DedupKey(result[j]) # key
    ELSE 0

\* a replacement test that prefers any more reliable entry
ShouldReplaceMoreReliable(book, existing) ==
    LET ob == reliabilityOrder(book.reliability)
        oe == reliabilityOrder(existing.reliability)
    IN  (ob # None /\ oe = None) \/ (ob # None /\ oe # None /\ ob[1] > oe[1])

\* the replacement test of deduplicateBooks
ShouldReplace(book, existing) ==
    book.reliability = "high" /\ existing.reliability # "high"

\* one iteration of the for loop of deduplicateBooks
DedupStep(st, book) ==
    LET key == DedupKey(book) IN
    IF key \notin st.seen
    THEN [seen |-> st.seen \cup {key}, result |-> Append(st.result, book)]
    ELSE LET existingIndex == FindIndex(st.result, key) IN
         IF existingIndex >= 1 /\ ShouldReplace(book, st.result[existingIndex])
         THEN [st EXCEPT !.result[existingIndex] = book]
         ELSE st

RECURSIVE DedupLoop(_, _)
DedupLoop(st, books) ==
    IF books = <<>> THEN st ELSE DedupLoop(DedupStep(st, Head(books)), Tail(books))

\* deduplicateBooks(books)
deduplicateBooks(books) == DedupLoop([seen |-> {}, result |-> <<>>], books).result

\* books.slice(0, limit), limit >= 0
slice(books, limit) ==
    SubSeq(books, 1, IF limit < Len(books) THEN limit ELSE Len(books))

(***************************************************************************)
(* BookSearch: fuzzy matching (search.js).  A score is the fraction        *)
(* <<numerator, denominator>>, so that (score / needle.length) * 100 is    *)
(* exact.                                                                  *)
(***************************************************************************)
RatLess(a, b) == a[1] * b[2] < b[1] * a[2]
RatMax(a, b) == IF RatLess(a, b) THEN b ELSE a

\* a walk that starts the needle again at every unequal character
RECURSIVE FuzzyWalkReset(_, _, _, _)
FuzzyWalkReset(needle, haystack, i, needleIndex) ==
    IF i <= Len(haystack) /\ needleIndex < Len(needle)
    THEN IF haystack[i] = needle[needleIndex + 1]
         THEN FuzzyWalkReset(needle, haystack, i + 1, needleIndex + 1)
         ELSE FuzzyWalkReset(needle, haystack, i + 1, 0)
    ELSE needleIndex

\* the for loop of fuzzyMatch: the number of needle characters matched
RECURSIVE FuzzyWalk(_, _, _, _)
FuzzyWalk(needle, haystack, i, needleIndex) ==
    IF i <= Len(haystack) /\ needleIndex < Len(needle)
    THEN IF haystack[i] = needle[needleIndex + 1]
         THEN FuzzyWalk(needle, haystack, i + 1, needleIndex + 1)
         ELSE FuzzyWalk(needle, haystack, i + 1, needleIndex)
    ELSE needleIndex

\* fuzzyMatch without the substring test: the character walk alone
fuzzyMatchWalkOnly(needle, haystack) ==
    <<FuzzyWalk(needle, haystack, 1, 0) * 100, Len(needle)>>

\* fuzzyMatch(needle, haystack)
fuzzyMatch(needle, haystack) ==
    IF includes(haystack, needle) THEN <<100, 1>>
    ELSE <<FuzzyWalk(needle, haystack, 1, 0) * 100, Len(needle)>>

\* Math.max(...scores) over the authors, from author i on
RECURSIVE BestAuthorScore(_, _, _)
BestAuthorScore(queryLower, authors, i) ==
    IF i > Len(authors) THEN <<0, 1>>
    ELSE RatMax(fuzzyMatch(queryLower, toLowerCase(authors[i])),
                BestAuthorScore(queryLower, authors, i + 1))

\* calculateMatchScore with the title weighted like an author
calculateMatchScoreUnweighted(book, query) ==
    LET queryLower == toLowerCase(query)
        titleScore == fuzzyMatch(queryLower, toLowerCase(book.title))
        authorScore == IF Len(book.authors) > 0
                       THEN BestAuthorScore(queryLower, book.authors, 1)
                       ELSE <<0, 1>>
    IN  RatMax(titleScore, authorScore)

\* calculateMatchScore(book, query)
calculateMatchScore(book, query) ==
    LET queryLower == toLowerCase(query)
        f == fuzzyMatch(queryLower, toLowerCase(book.title))
        titleScore == <<f[1] * 2, f[2]>>
        authorScore == IF Len(book.authors) > 0
                       THEN BestAuthorScore(queryLower, book.authors, 1)
                       ELSE <<0, 1>>
    IN  RatMax(titleScore, authorScore)

\* the minimum score threshold of applyFuzzyFilter
ScoreThreshold == 30
\* the size of the suggestion list
MaxSuggestions == 8

\* the filter callback of applyFuzzyFilter
AboveThreshold(e) == RatLess(<<ScoreThreshold, 1>>, e.score)

\* insert e behind every entry whose score is not lower (comparator b.score - a.score)
RECURSIVE InsertByScore(_, _)
InsertByScore(sorted, e) ==
    IF sorted = <<>> THEN <<e>>
    ELSE IF ~RatLess(Head(sorted).score, e.score)
         THEN <<Head(sorted)>> \o InsertByScore(Tail(sorted), e)
         ELSE <<e>> \o sorted

RECURSIVE SortByScore(_)
SortByScore(entries) ==
    IF entries = <<>> THEN <<>>
    ELSE InsertByScore(SortByScore(SubSeq(entries, 1, Len(entries) - 1)),
                       entries[Len(entries)])

\* applyFuzzyFilter(books, query)
applyFuzzyFilter(books, query) ==
    LET scored == [ i \in DOMAIN books |->
                      [book |-> books[i], score |-> calculateMatchScore(books[i], query)] ]
    IN  slice(SortByScore(SelectSeq(scored, AboveThreshold)), MaxSuggestions)

(***************************************************************************)
(* PublicDomainApp: the classifier (app.js)                                *)
(***************************************************************************)
\* analyzePublicDomainStatus(book): the status, the css class and which of the
\* fixed additionalInfo texts is returned
analyzePublicDomainStatus(book) ==
    IF book.source = "gutenberg" \/ (book.isPublicDomain # None /\ book.isPublicDomain[1])
    THEN [ status |-> "Public Domain", cssClass |-> "status-public-domain",
           additionalInfo |-> IF book.source = "gutenberg" THEN "gutenberg" ELSE "free" ]
    ELSE LET publishYear == book.publishYear IN
         IF publishYear = None \/ publishYear[1] = 0
         THEN [ status |-> "Unknown", cssClass |-> "status-unknown",
                additionalInfo |-> "research" ]
         ELSE IF publishYear[1] < 1929
         THEN [ status |-> "Public Domain", cssClass |-> "status-public-domain",
                additionalInfo |-> "free" ]
         ELSE IF publishYear[1] >= 1929 /\ publishYear[1] <= 1977
         THEN [ status |-> "Possibly Copyrighted", cssClass |-> "status-unknown",
                additionalInfo |-> "renewal" ]
         ELSE [ status |-> "Likely Copyrighted", cssClass |-> "status-copyrighted",
                additionalInfo |-> "life+70" ]

(***************************************************************************)
(* The modelled inputs: raw records and response bodies of the two sources *)
(***************************************************************************)
StrDune == <<"D","u","n","e">>
StrDuneBang == <<"d","u","n","e","!">>
StrEmma == <<"E","m","m","a">>
StrIt == <<"I","t">>
StrCthulhuTitle == <<"C","t","h","u","l","h","u">>
StrIliad == <<"I","l","i","a","d">>
StrAl == <<"A","l">>
StrALUpper == <<"A","L">>
StrHomer == <<"H","o","m","e","r">>
QueryDune == <<"d","u","n","e">>
QueryEm == <<"e","m">>

\* Gutendex records: id, title, authors [{name, death_year}]
gDune == [ id |-> 1, title |-> Some(StrDune),
           authors |-> Some(<< [name |-> StrAl, death_year |-> Some(1900)] >>) ]
gAnonymous == [ id |-> 2, title |-> None, authors |-> Some(<<>>) ]
gEmma == [ id |-> 3, title |-> Some(StrEmma), authors |-> None ]
gIliad == [ id |-> 4, title |-> Some(StrIliad),
            authors |-> Some(<< [name |-> StrHomer, death_year |-> Some(1005)],
                                [name |-> StrAl, death_year |-> Some(1950)] >>) ]

\* Open Library docs: key, title, author_name, first_publish_year, publish_year
oDune == [ key |-> <<"/works/OL", 1>>, title |-> Some(StrDuneBang),
           author_name |-> Some(<<StrALUpper>>),
           first_publish_year |-> Some(1965), publish_year |-> None ]
oEmpty == [ key |-> <<"/works/OL", 2>>, title |-> None, author_name |-> None,
            first_publish_year |-> None, publish_year |-> None ]
oIt == [ key |-> <<"/works/OL", 3>>, title |-> Some(StrIt), author_name |-> Some(<<>>),
         first_publish_year |-> None, publish_year |-> Some(<<1350, 1986, 2027>>) ]
oCthulhu == [ key |-> <<"/works/OL", 4>>, title |-> Some(StrCthulhuTitle),
              author_name |-> Some(<<StrAl>>),
              first_publish_year |-> Some(1950), publish_year |-> None ]
oEmma == [ key |-> <<"/works/OL", 5>>, title |-> Some(StrEmma), author_name |-> None,
           first_publish_year |-> Some(0), publish_year |-> None ]
oDuneReprint == [ key |-> <<"/works/OL", 6>>, title |-> Some(StrDune),
                  author_name |-> Some(<<StrAl>>),
                  first_publish_year |-> Some(1984), publish_year |-> Some(<<1965>>) ]

\* JSON bodies of gutendex.com: with and without the results array
GutenbergNoArray == [results |-> None]
GutenbergBodies ==
    { GutenbergNoArray,
      [results |-> Some(<<gDune, gAnonymous>>)],
      [results |-> Some(<<gEmma, gIliad>>)] }

\* JSON bodies of openlibrary.org: with and without the docs array
OpenLibraryNoArray == [docs |-> None]
OpenLibraryMixed == [docs |-> Some(<<oEmma, oEmpty, oDune, oDuneReprint>>)]
OpenLibraryDoubtful == [docs |-> Some(<<oEmpty, oIt, oCthulhu>>)]
OpenLibraryBodies == {OpenLibraryNoArray, OpenLibraryMixed, OpenLibraryDoubtful}

AdapterNames == {"g", "ol"}
Bodies(a) == IF a = "g" THEN GutenbergBodies ELSE OpenLibraryBodies
Process(a, data) ==
    IF a = "g" THEN processGutenbergResults(data) ELSE processOpenLibraryResultsFiltered(data)
HasArray(a, data) == IF a = "g" THEN data.results # None ELSE data.docs # None

Queries == {QueryDune, QueryEm}
\* the limits passed by direct callers of searchBooks
Limits == {1, 2}
\* the default of the limit parameter, used by performSearch
DefaultLimit == 10
\* the number of direct searchBooks calls in one run
MaxCalls == 3
\* the number of performSearch calls in one run
MaxSearches == 3
SearchIds == 1..(MaxCalls + MaxSearches)

(***************************************************************************)
(* State                                                                   *)
(***************************************************************************)
VARIABLES
    cache,              \* BookAPI.cache: cache key -> None or Some(list)
    currentController,  \* BookAPI.currentController: 0 (null) or the call that made it
    aborted,            \* the controllers whose signal is aborted
    searches,           \* the searchBooks calls, in call order
    microtasks,         \* the promise reactions waiting to run, first in first out
    returned,           \* the latest settlement of a searchBooks promise
    currentSuggestions, \* BookSearch.currentSuggestions
    container,          \* what suggestionsContainer.innerHTML shows
    hidden,             \* suggestionsContainer has class hidden
    loading,            \* searchInput has class loading
    lastWriter,         \* the performSearch call that wrote the suggestions last
    call,               \* a call of a pure function: None or Some([fn, arg])
    ret                 \* its result: None or Some(value)

apiVars == <<cache, currentController, aborted, searches, microtasks, returned>>
uiVars == <<currentSuggestions, container, hidden, loading, lastWriter>>
fnVars == <<call, ret>>
vars == <<cache, currentController, aborted, searches, microtasks, returned,
          currentSuggestions, container, hidden, loading, lastWriter, call, ret>>

CacheKeys == (Queries \X Limits) \cup (Queries \X {DefaultLimit})

\* the template `search_${query}_${limit}`
CacheKey(query, limit) == <<query, limit>>

\* one adapter call (searchProjectGutenberg / searchOpenLibraryFiltered) of a search:
\* st is where it stands, outcome how its request ended, value what it resolved to,
\* warned whether its catch block wrote console.warn
IdleAdapter == [st |-> "idle", outcome |-> "none", value |-> <<>>, warned |-> FALSE]
FetchingAdapter == [IdleAdapter EXCEPT !.st = "fetch"]
FailedAdapter(outcome) ==
    [st |-> "settled", outcome |-> outcome, value |-> <<>>, warned |-> TRUE]

Pending(ad) == ad.st \in {"fetch", "json"}

\* the state after the constructors of BookAPI and BookSearch
InitProgram ==
    /\ cache = [k \in CacheKeys |-> None]
    /\ currentController = 0
    /\ aborted = {}
    /\ searches = <<>>
    /\ microtasks = <<>>
    /\ returned = None
    /\ currentSuggestions = <<>>
    /\ container = "empty"
    /\ hidden = TRUE
    /\ loading = FALSE
    /\ lastWriter = 0

Init == InitProgram /\ call = None /\ ret = None

(***************************************************************************)
(* BookAPI.searchBooks (api.js)                                            *)
(***************************************************************************)
Microtask(k, sid, a, books) == [k |-> k, sid |-> sid, a |-> a, books |-> books]

\* abort() that signals nothing
AbortRequestsNone(ss, ctl) == ss

\* AbortController.abort(): every pending request made with the signal of
\* controller ctl rejects with an AbortError
AbortRequests(ss, ctl) ==
    [ s \in DOMAIN ss |->
        IF s = ctl
        THEN [ ss[s] EXCEPT
                 !.g = IF Pending(@) THEN [@ EXCEPT !.st = "rejected"] ELSE @,
                 !.ol = IF Pending(@) THEN [@ EXCEPT !.st = "rejected"] ELSE @ ]
        ELSE ss[s] ]

\* the reactions to those rejections: each adapter resumes in its catch block
AbortReactions(ss, ctl) ==
    IF ctl \in DOMAIN ss
    THEN (IF Pending(ss[ctl].g) THEN <<Microtask("catch", ctl, "g", <<>>)>> ELSE <<>>)
         \o (IF Pending(ss[ctl].ol) THEN <<Microtask("catch", ctl, "ol", <<>>)>> ELSE <<>>)
    ELSE <<>>

\* searchBooks(query, limit) up to its first await or its return from the cache;
\* ui says whether performSearch awaits the result, stored is what the call
\* has written into the cache (line 47), None before that
StartSearch(query, limit, ui) ==
    LET sid == Len(searches) + 1
        old == currentController
        abortNow == old # 0 /\ old \notin aborted
        afterAbort == IF abortNow THEN AbortRequests(searches, old) ELSE searches
        reactions == IF abortNow THEN AbortReactions(searches, old) ELSE <<>>
        cacheKey == CacheKey(query, limit)
        this == [query |-> query, limit |-> limit, ui |-> ui,
                 phase |-> "adapters", g |-> IdleAdapter, ol |-> IdleAdapter,
                 stored |-> None]
    IN  /\ aborted' = IF old # 0 THEN aborted \cup {old} ELSE aborted
        /\ currentController' = sid
        /\ cache' = cache
        /\ IF cache[cacheKey] # None
           THEN /\ searches' = Append(afterAbort,
                                  [this EXCEPT !.phase = IF ui THEN "resolved" ELSE "done"])
                /\ returned' = Some([sid |-> sid, value |-> cache[cacheKey][1],
                                     aborted |-> FALSE, fromCache |-> TRUE,
                                     g |-> IdleAdapter, ol |-> IdleAdapter])
                /\ microtasks' = reactions \o
                       (IF ui THEN <<Microtask("resume", sid, "", cache[cacheKey][1])>>
                        ELSE <<>>)
           ELSE /\ searches' = Append(afterAbort,
                                  [this EXCEPT !.g = FetchingAdapter, !.ol = FetchingAdapter])
                /\ returned' = returned
                /\ microtasks' = reactions

\* a caller other than performSearch calls searchBooks(query, limit)
SearchBooks(query, limit) ==
    /\ microtasks = <<>>
    /\ Len(searches) < MaxCalls
    /\ StartSearch(query, limit, FALSE)
    /\ UNCHANGED <<uiVars, fnVars>>

\* Promise.allSettled: the join of the two adapter calls is ready
JoinReady(s) == s.g.st = "settled" /\ s.ol.st = "settled"

\* adapter a of search sid settles as ad; when the join is ready, searchBooks resumes
SettleAdapter(sid, a, ad, queue) ==
    LET s == IF a = "g" THEN [searches[sid] EXCEPT !.g = ad]
             ELSE [searches[sid] EXCEPT !.ol = ad]
    IN  /\ searches' = [searches EXCEPT ![sid] = s]
        /\ microtasks' = IF JoinReady(s) /\ s.phase = "adapters"
                         THEN Append(queue, Microtask("join", sid, "", <<>>))
                         ELSE queue

AdapterOf(sid, a) == IF a = "g" THEN searches[sid].g ELSE searches[sid].ol

\* fetch rejects (network error): the adapter's catch warns and returns []
FetchRejects(sid, a) ==
    /\ microtasks = <<>>
    /\ sid \in DOMAIN searches
    /\ AdapterOf(sid, a).st = "fetch"
    /\ SettleAdapter(sid, a, FailedAdapter("error"), <<>>)
    /\ UNCHANGED <<cache, currentController, aborted, returned, uiVars, fnVars>>

\* fetch resolves with a response: !response.ok throws into the catch,
\* otherwise the adapter awaits response.json()
FetchResponds(sid, a, ok) ==
    /\ microtasks = <<>>
    /\ sid \in DOMAIN searches
    /\ AdapterOf(sid, a).st = "fetch"
    /\ IF ok
       THEN SettleAdapter(sid, a, [AdapterOf(sid, a) EXCEPT !.st = "json"], <<>>)
       ELSE SettleAdapter(sid, a, FailedAdapter("error"), <<>>)
    /\ UNCHANGED <<cache, currentController, aborted, returned, uiVars, fnVars>>

\* response.json() rejects (the body is not JSON): the catch warns and returns []
JsonRejects(sid, a) ==
    /\ microtasks = <<>>
    /\ sid \in DOMAIN searches
    /\ AdapterOf(sid, a).st = "json"
    /\ SettleAdapter(sid, a, FailedAdapter("error"), <<>>)
    /\ UNCHANGED <<cache, currentController, aborted, returned, uiVars, fnVars>>

\* response.json() resolves with data: the adapter returns the processed records
JsonResolves(sid, a, data) ==
    /\ microtasks = <<>>
    /\ sid \in DOMAIN searches
    /\ AdapterOf(sid, a).st = "json"
    /\ SettleAdapter(sid, a,
          [st |-> "settled",
           outcome |-> IF HasArray(a, data) THEN "data" ELSE "malformed",
           value |-> Process(a, data),
           warned |-> FALSE], <<>>)
    /\ UNCHANGED <<cache, currentController, aborted, returned, uiVars, fnVars>>

\* microtask: an aborted adapter call resumes in its catch block with the AbortError
AdapterCatch ==
    /\ microtasks # <<>>
    /\ Head(microtasks).k = "catch"
    /\ LET m == Head(microtasks) IN
       /\ AdapterOf(m.sid, m.a).st = "rejected"
       /\ SettleAdapter(m.sid, m.a, FailedAdapter("aborted"), Tail(microtasks))
    /\ UNCHANGED <<cache, currentController, aborted, returned, uiVars, fnVars>>

\* the status === 'fulfilled' tests: an adapter call that has settled has fulfilled
Fulfilled(ad) == ad.st = "settled"

\* a fail-fast join: one failed adapter empties the search
CollectBooksFailFast(g, ol) ==
    IF g.outcome # "data" \/ ol.outcome # "data" THEN <<>> ELSE g.value \o ol.value

\* a join that pushes the Open Library results before the Gutenberg results
CollectBooksOpenLibraryFirst(g, ol) ==
    (IF Fulfilled(ol) THEN ol.value ELSE <<>>) \o (IF Fulfilled(g) THEN g.value ELSE <<>>)

\* lines 31-41 of searchBooks: Gutenberg results first, then Open Library results
CollectBooks(g, ol) ==
    (IF Fulfilled(g) THEN g.value ELSE <<>>) \o (IF Fulfilled(ol) THEN ol.value ELSE <<>>)

\* line 44 of searchBooks
BuildResult(g, ol, limit) == slice(deduplicateBooks(CollectBooks(g, ol)), limit)

\* microtask: searchBooks resumes behind Promise.allSettled, stores and returns.
\* Neither adapter call rejects and nothing in the try block throws on these
\* inputs, so the catch block of searchBooks is not entered.
Join ==
    /\ microtasks # <<>>
    /\ Head(microtasks).k = "join"
    /\ LET sid == Head(microtasks).sid
           s == searches[sid]
           books == BuildResult(s.g, s.ol, s.limit)
       IN  /\ cache' = [cache EXCEPT ![CacheKey(s.query, s.limit)] = Some(books)]
           /\ returned' = Some([sid |-> sid, value |-> books,
                                aborted |-> sid \in aborted, fromCache |-> FALSE,
                                g |-> s.g, ol |-> s.ol])
           /\ searches' = [searches EXCEPT ![sid] =
                              [s EXCEPT !.phase = IF s.ui THEN "resolved" ELSE "done",
                                        !.g = IdleAdapter, !.ol = IdleAdapter,
                                        !.stored = Some(books)]]
           /\ microtasks' = Tail(microtasks) \o
                  (IF s.ui THEN <<Microtask("resume", sid, "", books)>> ELSE <<>>)
    /\ UNCHANGED <<currentController, aborted, uiVars, fnVars>>

(***************************************************************************)
(* BookSearch.performSearch (search.js)                                    *)
(***************************************************************************)
\* the debounce timer fires: performSearch(query) up to its await
PerformSearch(query) ==
    /\ microtasks = <<>>
    /\ Len(searches) < MaxSearches
    /\ loading' = TRUE
    /\ StartSearch(query, DefaultLimit, TRUE)
    /\ UNCHANGED <<currentSuggestions, container, hidden, lastWriter, fnVars>>

\* microtask: performSearch resumes with the books: applyFuzzyFilter,
\* displaySuggestions and, in the finally block, setLoadingState(false)
Resume ==
    /\ microtasks # <<>>
    /\ Head(microtasks).k = "resume"
    /\ LET m == Head(microtasks)
           filteredBooks == applyFuzzyFilter(m.books, searches[m.sid].query)
       IN  /\ currentSuggestions' = filteredBooks
           /\ container' = IF Len(filteredBooks) = 0 THEN "no-results" ELSE "suggestions"
           /\ hidden' = FALSE
           /\ loading' = FALSE
           /\ lastWriter' = m.sid
           /\ searches' = [searches EXCEPT ![m.sid].phase = "done"]
           /\ microtasks' = Tail(microtasks)
    /\ UNCHANGED <<cache, currentController, aborted, returned, fnVars>>

(***************************************************************************)
(* Specifications                                                          *)
(***************************************************************************)
\* BookAPI under direct callers
Next ==
    \/ \E q \in Queries, l \in Limits : SearchBooks(q, l)
    \/ \E sid \in SearchIds, a \in AdapterNames : FetchRejects(sid, a)
    \/ \E sid \in SearchIds, a \in AdapterNames, ok \in BOOLEAN :
          FetchResponds(sid, a, ok)
    \/ \E sid \in SearchIds, a \in AdapterNames : JsonRejects(sid, a)
    \/ \E sid \in SearchIds, a \in AdapterNames :
          \E data \in Bodies(a) : JsonResolves(sid, a, data)
    \/ AdapterCatch
    \/ Join

Spec == Init /\ [][Next]_vars

\* BookSearch on top of BookAPI
NextUI ==
    \/ \E q \in Queries : PerformSearch(q)
    \/ \E sid \in SearchIds, a \in AdapterNames : FetchRejects(sid, a)
    \/ \E sid \in SearchIds, a \in AdapterNames, ok \in BOOLEAN :
          FetchResponds(sid, a, ok)
    \/ \E sid \in SearchIds, a \in AdapterNames : JsonRejects(sid, a)
    \/ \E sid \in SearchIds, a \in AdapterNames :
          \E data \in Bodies(a) : JsonResolves(sid, a, data)
    \/ AdapterCatch
    \/ Join
    \/ Resume

SpecUI == Init /\ [][NextUI]_vars

(***************************************************************************)
(* The pure functions, applied to inputs drawn from bounded sets           *)
(***************************************************************************)
\* the years given to the classifier
ClassifyYears == {-357, 0, 995, 1000, 1890, 1928, 1929, 1950, 1977, 1978,
                  CurrentYear, CurrentYear + 1}

\* the fields of a candidate that analyzePublicDomainStatus reads
ClassifyInputs ==
    { [source |-> src, isPublicDomain |-> pd, publishYear |-> y] :
        src \in {"gutenberg", "openlibrary"},
        pd \in {None, Some(TRUE), Some(FALSE)},
        y \in {None} \cup { Some(n) : n \in ClassifyYears } }

InitClassify ==
    /\ InitProgram
    /\ call \in { Some([fn |-> "analyzePublicDomainStatus", arg |-> b]) :
                    b \in ClassifyInputs }
    /\ ret = None

\* displayBookResult calls analyzePublicDomainStatus(book)
Classify ==
    /\ call # None /\ call[1].fn = "analyzePublicDomainStatus" /\ ret = None
    /\ ret' = Some(analyzePublicDomainStatus(call[1].arg))
    /\ UNCHANGED <<apiVars, uiVars, call>>

NextClassify == Classify

SpecClassify == InitClassify /\ [][NextClassify]_vars

\* the longest list given to deduplicateBooks
MaxBooks == 3

Reliabilities == {"invalid", "low", "medium", "high"}
DedupTitles == <<StrDune, StrDuneBang, StrEmma, StrDune>>
DedupAuthors == << <<StrAl>>, <<StrALUpper, StrHomer>>, <<StrAl>>, <<>> >>

\* candidates for deduplicateBooks: four title/authors pairs, the first two with
\* the same key, the last one without authors
DedupInputs ==
    { [ id |-> <<"/works/OL", t>>, title |-> DedupTitles[t], authors |-> DedupAuthors[t],
        publishYear |-> None, source |-> "openlibrary", reliability |-> r,
        isPublicDomain |-> None ] : t \in DOMAIN DedupTitles, r \in Reliabilities }

SeqsUpTo(S, n) == UNION { [1..k -> S] : k \in 0..n }

InitDedup ==
    /\ InitProgram
    /\ call \in { Some([fn |-> "deduplicateBooks", arg |-> books]) :
                    books \in SeqsUpTo(DedupInputs, MaxBooks) }
    /\ ret = None

\* a call of deduplicateBooks(books)
Deduplicate ==
    /\ call # None /\ call[1].fn = "deduplicateBooks" /\ ret = None
    /\ ret' = Some(deduplicateBooks(call[1].arg))
    /\ UNCHANGED <<apiVars, uiVars, call>>

NextDedup == Deduplicate

SpecDedup == InitDedup /\ [][NextDedup]_vars

\* how far the years given to isValidYear lie from a landmark
YearMargin == 5
YearLandmarks == {0, 1000, 1350, 1400, 1929, CurrentYear}

\* the years given to isValidYear: absent, or an integer near a landmark
YearInputs ==
    {None} \cup { Some(k + d) : k \in YearLandmarks, d \in (-YearMargin)..YearMargin }

InitYear ==
    /\ InitProgram
    /\ call \in { Some([fn |-> "isValidYear", arg |-> y]) : y \in YearInputs }
    /\ ret = None

\* a call of isValidYear(year)
IsValidYear ==
    /\ call # None /\ call[1].fn = "isValidYear" /\ ret = None
    /\ ret' = Some(isValidYear(call[1].arg))
    /\ UNCHANGED <<apiVars, uiVars, call>>

NextYear == IsValidYear

SpecYear == InitYear /\ [][NextYear]_vars

StrTessTitle ==
    <<"T","e","s","s"," ","d","'","U","r","b","e","r","v","i","l","l","e","s">>
StrLovecraftName == <<"H","P"," ","L","o","v","e","c","r","a","f","t">>
StrAustenName == <<"J"," ","A","U","S","T","E","N">>
StrHardyName == <<"H","a","r","d","y">>

\* how far the years given to validateYearAgainstContext lie from a range bound
ContextMargin == 1

\* years next to the bounds of every range of the table, and the year 1950
ContextYears ==
    {1950} \cup
    UNION { ((suspiciousPatterns[i].minYear - ContextMargin)
                ..(suspiciousPatterns[i].minYear + ContextMargin))
            \cup ((suspiciousPatterns[i].maxYear - ContextMargin)
                     ..(suspiciousPatterns[i].maxYear + ContextMargin)) :
            i \in DOMAIN suspiciousPatterns }

\* the fields of a doc that validateYearAgainstContext reads
ContextBooks ==
    { [title |-> t, author_name |-> a] :
        t \in {None, Some(StrEmma), Some(StrCthulhuTitle), Some(StrTessTitle)},
        a \in {None, Some(<<>>), Some(<<StrAl>>), Some(<<StrLovecraftName>>),
               Some(<<StrAl, StrAustenName>>), Some(<<StrHardyName>>)} }

InitContext ==
    /\ InitProgram
    /\ call \in { Some([fn |-> "validateYearAgainstContext",
                        arg |-> [year |-> y, book |-> b]]) :
                    y \in ContextYears, b \in ContextBooks }
    /\ ret = None

\* getValidatedYear calls validateYearAgainstContext(earliest, book)
ValidateYear ==
    /\ call # None /\ call[1].fn = "validateYearAgainstContext" /\ ret = None
    /\ ret' = Some(validateYearAgainstContext(call[1].arg.year, call[1].arg.book))
    /\ UNCHANGED <<apiVars, uiVars, call>>

NextContext == ValidateYear

SpecContext == InitContext /\ [][NextContext]_vars

\* the longest needle and the longest haystack built from FuzzyChars
MaxNeedle == 2
MaxHaystack == 3
FuzzyChars == {"d", "D", "u"}

\* the strings given to fuzzyMatch: every short string over three characters,
\* and the words of the example
FuzzyNeedles == SeqsUpTo(FuzzyChars, MaxNeedle) \cup {QueryDune}
FuzzyHaystacks == SeqsUpTo(FuzzyChars, MaxHaystack) \cup {StrDune, QueryDune, StrDuneBang}

InitFuzzy ==
    /\ InitProgram
    /\ call \in { Some([fn |-> "fuzzyMatch", arg |-> [needle |-> n, haystack |-> h]]) :
                    n \in FuzzyNeedles, h \in FuzzyHaystacks }
    /\ ret = None

\* a call of fuzzyMatch(needle, haystack)
FuzzyMatch ==
    /\ call # None /\ call[1].fn = "fuzzyMatch" /\ ret = None
    /\ ret' = Some(fuzzyMatch(call[1].arg.needle, call[1].arg.haystack))
    /\ UNCHANGED <<apiVars, uiVars, call>>

NextFuzzy == FuzzyMatch

SpecFuzzy == InitFuzzy /\ [][NextFuzzy]_vars

\* the longest query built from ScoreChars
MaxQuery == 2
ScoreChars == {"D", "e", "m"}
StrDuneUpper == <<"D","U","N","E">>
StrEmmaDune == <<"E","m","m","a"," ","D","u","n","e">>
QueryAl == <<"a","l">>

\* the queries and candidates given to calculateMatchScore
ScoreQueries == SeqsUpTo(ScoreChars, MaxQuery) \cup {QueryDune, StrDuneUpper, QueryAl}
ScoreBooks ==
    { [title |-> t, authors |-> a] :
        t \in {StrDune, StrEmma, StrIt, StrDuneBang},
        a \in {<<>>, <<StrAl>>, <<StrAl, StrHomer>>, <<StrEmmaDune, StrAl>>} }

InitScore ==
    /\ InitProgram
    /\ call \in { Some([fn |-> "calculateMatchScore", arg |-> [book |-> b, query |-> q]]) :
                    b \in ScoreBooks, q \in ScoreQueries }
    /\ ret = None

\* the map callback of applyFuzzyFilter calls calculateMatchScore(book, query)
CalculateMatchScore ==
    /\ call # None /\ call[1].fn = "calculateMatchScore" /\ ret = None
    /\ ret' = Some(calculateMatchScore(call[1].arg.book, call[1].arg.query))
    /\ UNCHANGED <<apiVars, uiVars, call>>

NextScore == CalculateMatchScore

SpecScore == InitScore /\ [][NextScore]_vars

\* the longest list of candidates built from every combination of FilterBooks
MaxCandidates == 2
\* the length of the lists that exceed the size of the suggestion list
LongLength == 10

QueryTen == <<"a","b","c","d","e","f","g","h","i","j">>
StrZ == <<"Z">>
StrAbTitle == <<"A","b">>

\* candidates scoring 200, 100, 60, 40, 30 and 20 against QueryTen
FilterBooks == <<
    [title |-> QueryTen, authors |-> <<>>],
    [title |-> StrZ, authors |-> <<StrAl, <<"x">> \o QueryTen>>],
    [title |-> <<"A","B","C">>, authors |-> <<StrAl>>],
    [title |-> StrAbTitle, authors |-> <<<<"a","b","c","d">>>>],
    [title |-> StrZ, authors |-> <<<<"A","b","c">>>>],
    [title |-> StrZ, authors |-> <<<<"a","b">>>>] >>

\* the lists given to applyFuzzyFilter: every short list, and long lists that
\* go round FilterBooks from each starting point
FilterLists ==
    SeqsUpTo(Range(FilterBooks), MaxCandidates)
    \cup { [ i \in 1..LongLength |-> FilterBooks[((i + k) % Len(FilterBooks)) + 1] ] :
             k \in 0..(Len(FilterBooks) - 1) }

InitFilter ==
    /\ InitProgram
    /\ call \in { Some([fn |-> "applyFuzzyFilter", arg |-> [books |-> bs, query |-> q]]) :
                    bs \in FilterLists, q \in {QueryTen, QueryAl} }
    /\ ret = None

\* performSearch calls applyFuzzyFilter(books, query)
ApplyFuzzyFilter ==
    /\ call # None /\ call[1].fn = "applyFuzzyFilter" /\ ret = None
    /\ ret' = Some(applyFuzzyFilter(call[1].arg.books, call[1].arg.query))
    /\ UNCHANGED <<apiVars, uiVars, call>>

NextFilter == ApplyFuzzyFilter

SpecFilter == InitFilter /\ [][NextFilter]_vars

\* the docs given to the map callback of processOpenLibraryResultsFiltered
ReliabilityDocs ==
    { [ key |-> <<"/works/OL", 9>>, title |-> t, author_name |-> a,
        first_publish_year |-> f, publish_year |-> p ] :
        t \in {None, Some(<<>>), Some(<<"A">>), Some(StrIt), Some(UnknownTitle),
               Some(<<"U","N","K","N","O","W","N">>), Some(StrEmma), Some(StrCthulhuTitle)},
        a \in {None, Some(<<>>), Some(<<StrAl>>)},
        f \in {None, Some(0), Some(1350), Some(1930), Some(1950)},
        p \in {None, Some(<<>>), Some(<<1350, 1986, 2027>>), Some(<<1930>>)} }

InitReliability ==
    /\ InitProgram
    /\ call \in { Some([fn |-> "OpenLibraryCandidate", arg |-> b]) : b \in ReliabilityDocs }
    /\ ret = None

\* the map callback of processOpenLibraryResultsFiltered builds the candidate of a doc
MapOpenLibraryDoc ==
    /\ call # None /\ call[1].fn = "OpenLibraryCandidate" /\ ret = None
    /\ ret' = Some(OpenLibraryCandidate(call[1].arg))
    /\ UNCHANGED <<apiVars, uiVars, call>>

NextReliability == MapOpenLibraryDoc

SpecReliability == InitReliability /\ [][NextReliability]_vars

\* the longest author list of a Gutendex record
MaxAuthors == 2

\* the authors of Gutendex records: death_year absent, 0, before our era,
\* before 1929, and 1929 or later
GutenbergPersons ==
    { [name |-> StrAl, death_year |-> d] :
        d \in {None, Some(0), Some(-347), Some(1900), Some(1928), Some(1929), Some(1950)} }

\* the records given to the map callback of processGutenbergResults
GutenbergRecords ==
    { [id |-> 7, title |-> t, authors |-> a] :
        t \in {None, Some(StrIliad)},
        a \in {None} \cup { Some(l) : l \in SeqsUpTo(GutenbergPersons, MaxAuthors) } }

InitGutenberg ==
    /\ InitProgram
    /\ call \in { Some([fn |-> "GutenbergCandidate", arg |-> b]) : b \in GutenbergRecords }
    /\ ret = None

\* the map callback of processGutenbergResults builds the candidate of a record
MapGutenbergRecord ==
    /\ call # None /\ call[1].fn = "GutenbergCandidate" /\ ret = None
    /\ ret' = Some(GutenbergCandidate(call[1].arg))
    /\ UNCHANGED <<apiVars, uiVars, call>>

NextGutenberg == MapGutenbergRecord

SpecGutenberg == InitGutenberg /\ [][NextGutenberg]_vars

(***************************************************************************)
(* Properties                                                              *)
(***************************************************************************)
Returned == returned[1]
SettledAdapters ==
    { ad \in UNION { {searches[sid].g, searches[sid].ol} : sid \in DOMAIN searches } :
        ad.st = "settled" }
    \cup (IF returned # None /\ ~Returned.fromCache THEN {Returned.g, Returned.ol} ELSE {})

\* C1: once a newer performSearch call has written the suggestions, no older call
\* writes them afterwards: the call that wrote last never becomes an older one.
C1_NoStaleWrite == [][lastWriter' >= lastWriter]_vars

\* C2: a searchBooks call whose signal was aborted before it settled resolves to
\* the empty list.
C2_CancelledResolvesEmpty ==
    returned # None => (Returned.aborted => Returned.value = <<>>)

\* C3: every request that is outstanding and not aborted belongs to the most
\* recently started search, which holds the current controller; the controller
\* of every earlier search is aborted.
C3_OnlyLatestOutstanding ==
    \A sid \in DOMAIN searches :
        /\ (Pending(searches[sid].g) \/ Pending(searches[sid].ol)) =>
              sid = Len(searches) /\ sid = currentController /\ sid \notin aborted
        /\ sid < Len(searches) => sid \in aborted

\* C3 witness: a search was superseded while both its requests were outstanding,
\* and the new search has issued its own requests.
C3_Witness ==
    \E sid \in DOMAIN searches :
        /\ sid < Len(searches)
        /\ searches[sid].g.st = "rejected" /\ searches[sid].ol.st = "rejected"
        /\ Pending(searches[Len(searches)].g) /\ Pending(searches[Len(searches)].ol)

FailedRequest(ad) == ad.outcome \in {"error", "malformed"}

\* C4: a result that was built was built from two settled adapter calls, and when
\* exactly one adapter failed it is the deduplicated, truncated list of the other.
C4_PartialSuccess ==
    (returned # None /\ ~Returned.fromCache) =>
        LET limit == searches[Returned.sid].limit IN
        /\ Returned.g.st = "settled" /\ Returned.ol.st = "settled"
        /\ (FailedRequest(Returned.g) /\ Returned.ol.outcome = "data") =>
              Returned.value = slice(deduplicateBooks(Returned.ol.value), limit)
        /\ (FailedRequest(Returned.ol) /\ Returned.g.outcome = "data") =>
              Returned.value = slice(deduplicateBooks(Returned.g.value), limit)

\* C4 witness: Gutenberg failed, Open Library returned three candidates with a
\* duplicate, and the result is the one candidate left by the limit 1.
C4_Witness ==
    /\ returned # None /\ ~Returned.fromCache
    /\ Returned.g.outcome = "error" /\ Returned.ol.outcome = "data"
    /\ Len(Returned.ol.value) = 3
    /\ Len(deduplicateBooks(Returned.ol.value)) = 2
    /\ searches[Returned.sid].limit = 1
    /\ Len(Returned.value) = 1

\* C5: every adapter call whose request did not deliver the expected array
\* resolved to the empty list and wrote a warning.
C5_FailuresWarnAndResolveEmpty ==
    \A ad \in SettledAdapters :
        ad.outcome # "data" => (ad.value = <<>> /\ ad.warned)

\* C6: no candidate returned by searchBooks has reliability invalid.
C6_NoInvalidReturned ==
    returned # None =>
        \A i \in DOMAIN Returned.value : Returned.value[i].reliability # "invalid"

\* C6 witness: the Open Library body began with a doc scored invalid, and the
\* candidates of its other docs were returned.
C6_Witness ==
    /\ returned # None /\ ~Returned.fromCache
    /\ assessDataReliability(OpenLibraryDoubtful.docs[1][1]) = "invalid"
    /\ Returned.ol.outcome = "data"
    /\ Returned.ol.value = processOpenLibraryResultsFiltered(OpenLibraryDoubtful)
    /\ Len(Returned.value) = 2
    /\ \A i \in DOMAIN Returned.value : Returned.value[i].source = "openlibrary"

\* C7: every candidate an adapter produced, and every candidate returned, has a
\* non-empty authors list.
C7_AuthorsNonEmpty ==
    /\ \A ad \in SettledAdapters : \A i \in DOMAIN ad.value : Len(ad.value[i].authors) > 0
    /\ returned # None =>
          \A i \in DOMAIN Returned.value : Len(Returned.value[i].authors) > 0

\* C8: every returned candidate has publishYear absent or in [1000, currentYear].
C8_YearInRange ==
    returned # None =>
        \A i \in DOMAIN Returned.value :
            LET y == Returned.value[i].publishYear IN
            y = None \/ (1000 <= y[1] /\ y[1] <= CurrentYear)

\* the verdict of the rule chain of the classifier as the claim states it
RuleVerdict(book) ==
    IF (book.isPublicDomain # None /\ book.isPublicDomain[1]) \/ book.source = "gutenberg"
    THEN "Public Domain"
    ELSE IF book.publishYear = None THEN "Unknown"
    ELSE IF book.publishYear[1] < 1929 THEN "Public Domain"
    ELSE IF book.publishYear[1] <= 1977 THEN "Possibly Copyrighted"
    ELSE "Likely Copyrighted"

\* C9: analyzePublicDomainStatus returns the verdict of the first matching rule,
\* for every source, isPublicDomain value and publishYear (absent or any integer).
C9_VerdictByFirstRule ==
    (call # None /\ call[1].fn = "analyzePublicDomainStatus" /\ ret # None) =>
        ret[1].status = RuleVerdict(call[1].arg)

ReliabilityRank(r) ==
    CASE r = "invalid" -> 0 [] r = "low" -> 1 [] r = "medium" -> 2 [] r = "high" -> 3

\* C10: for every two input entries with the same dedup key, the entry that
\* deduplicateBooks keeps for that key is at least as reliable as both.
C10_SurvivorAtLeastAsReliable ==
    (call # None /\ call[1].fn = "deduplicateBooks" /\ ret # None) =>
        LET books == call[1].arg
            out == ret[1]
        IN  \A i, j \in DOMAIN books :
              (i < j /\ DedupKey(books[i]) = DedupKey(books[j])) =>
                 \A k \in DOMAIN out :
                    DedupKey(out[k]) = DedupKey(books[i]) =>
                       /\ ReliabilityRank(out[k].reliability) >=
                             ReliabilityRank(books[i].reliability)
                       /\ ReliabilityRank(out[k].reliability) >=
                             ReliabilityRank(books[j].reliability)

\* C11: deduplicateBooks is idempotent: applied to its own output it returns that
\* output, entry for entry and in the same order.
C11_Idempotent ==
    (call # None /\ call[1].fn = "deduplicateBooks" /\ ret # None) =>
        deduplicateBooks(ret[1]) = ret[1]

\* C11 witness: a list of three entries with two keys lost one entry, and the
\* entry kept for the first key is not the first entry of the input.
C11_Witness ==
    /\ call # None /\ call[1].fn = "deduplicateBooks" /\ ret # None
    /\ Len(call[1].arg) = 3 /\ Len(ret[1]) = 2
    /\ ret[1][1] # call[1].arg[1]
    /\ DedupKey(ret[1][1]) # DedupKey(ret[1][2])

\* where a candidate entered the list searchBooks builds: the Gutenberg records in
\* the order of the results array, then the Open Library docs in the order of docs
InsertionPosition(c) ==
    IF c.source = "gutenberg"
    THEN CHOOSE i \in 1..9 :
            \E b \in GutenbergBodies :
               /\ b.results # None /\ i \in DOMAIN b.results[1]
               /\ GutenbergCandidate(b.results[1][i]) = c
    ELSE 10 + CHOOSE i \in 1..9 :
            \E b \in OpenLibraryBodies :
               /\ b.docs # None /\ i \in DOMAIN b.docs[1]
               /\ OpenLibraryCandidate(b.docs[1][i]) = c

C14_CacheAppendOnly ==
    [][\A k \in CacheKeys : cache[k] # None => cache'[k] = cache[k]]_vars

\* C13: a searchBooks call made after a call with the same query and limit has
\* stored its result returns that result at once and issues no request.
C13_LaterCallReturnsStored ==
    [][\A sid \in DOMAIN searches :
          LET new == Len(searches) + 1 IN
          (/\ Len(searches') = new
           /\ searches[sid].stored # None
           /\ searches'[new].query = searches[sid].query
           /\ searches'[new].limit = searches[sid].limit) =>
             /\ returned' # None /\ returned'[1].sid = new /\ returned'[1].fromCache
             /\ returned'[1].value = searches[sid].stored[1]
             /\ searches'[new].g = IdleAdapter /\ searches'[new].ol = IdleAdapter]_vars

\* C15: isValidYear(y) is true exactly when 1400 <= y <= currentYear, and false
\* for an absent year.
C15_ValidYearRange ==
    (call # None /\ call[1].fn = "isValidYear" /\ ret # None) =>
        LET y == call[1].arg IN
        ret[1] = (y # None /\ 1400 <= y[1] /\ y[1] <= CurrentYear)

\* C15 witness: isValidYear(1350) has returned false.
C15_Witness ==
    /\ call # None /\ call[1].fn = "isValidYear"
    /\ call[1].arg = Some(1350)
    /\ ret = Some(FALSE)

\* an entry of the pattern table matches the title or some author of the book,
\* whatever the case of their letters
EntryMatchesBook(check, book) ==
    \/ book.title # None /\ RegexTest(check.pattern, toLowerCase(book.title[1]))
    \/ /\ book.author_name # None
       /\ \E a \in Range(book.author_name[1]) : RegexTest(check.pattern, toLowerCase(a))

\* C16: validateYearAgainstContext returns absent exactly when some entry of the
\* table matches the title or an author and the year is outside that entry's
\* range; in every other case it returns the year.
C16_ContextVerdict ==
    (call # None /\ call[1].fn = "validateYearAgainstContext" /\ ret # None) =>
        LET year == call[1].arg.year
            book == call[1].arg.book
            outside == \E i \in DOMAIN suspiciousPatterns :
                          /\ EntryMatchesBook(suspiciousPatterns[i], book)
                          /\ (year < suspiciousPatterns[i].minYear
                                \/ year > suspiciousPatterns[i].maxYear)
        IN  ret[1] = IF outside THEN None ELSE Some(year)

\* C16 witness: the title 'Cthulhu' with the year 1950 has yielded absent.
C16_Witness ==
    /\ call # None /\ call[1].fn = "validateYearAgainstContext"
    /\ call[1].arg.book.title = Some(StrCthulhuTitle)
    /\ call[1].arg.book.author_name = Some(<<StrAl>>)
    /\ call[1].arg.year = 1950
    /\ ret = Some(None)

\* the score r is the number n (a score with denominator 0 is NaN, no number)
ScoreIs(r, n) == r[2] # 0 /\ r[1] = n * r[2]

\* needle occurs in haystack as a run of consecutive characters
OccursIn(needle, haystack) ==
    \E i \in 0..(Len(haystack) - Len(needle)) :
        \A k \in 1..Len(needle) : haystack[i + k] = needle[k]

\* C17, as stated: fuzzyMatch returns 100 whenever needle occurs in haystack as a
\* substring once the case of the letters is ignored.
C17_SubstringAnyCase ==
    (call # None /\ call[1].fn = "fuzzyMatch" /\ ret # None) =>
        (OccursIn(toLowerCase(call[1].arg.needle), toLowerCase(call[1].arg.haystack)) =>
            ScoreIs(ret[1], 100))

\* C17, amended: fuzzyMatch returns 100 whenever needle occurs in haystack as a
\* substring with the same case of every letter.
C17_SubstringSameCase ==
    (call # None /\ call[1].fn = "fuzzyMatch" /\ ret # None) =>
        (OccursIn(call[1].arg.needle, call[1].arg.haystack) => ScoreIs(ret[1], 100))

\* C17 witness: fuzzyMatch("dune", "dune!") has returned 100.
C17_Witness ==
    /\ call # None /\ call[1].fn = "fuzzyMatch"
    /\ call[1].arg.needle = QueryDune /\ call[1].arg.haystack = StrDuneBang
    /\ ret # None /\ ScoreIs(ret[1], 100)

RatEq(a, b) == ~RatLess(a, b) /\ ~RatLess(b, a)

\* C18: calculateMatchScore is the greatest of twice the fuzzyMatch of the
\* lowercased query in the lowercased title and the fuzzyMatch in each lowercased
\* author: it is one of these terms (0 standing for the author term of a book
\* without authors) and none of them exceeds it; a title that contains the query
\* scores 200, and no author term exceeds 100.
C18_WeightedMaximum ==
    (call # None /\ call[1].fn = "calculateMatchScore" /\ ret # None) =>
        LET q == toLowerCase(call[1].arg.query)
            book == call[1].arg.book
            t == fuzzyMatch(q, toLowerCase(book.title))
            title2 == <<2 * t[1], t[2]>>
            authorTerms == { fuzzyMatch(q, toLowerCase(book.authors[i])) :
                               i \in DOMAIN book.authors }
            terms == {title2} \cup (IF authorTerms = {} THEN {<<0, 1>>} ELSE authorTerms)
        IN  /\ \E x \in terms : RatEq(ret[1], x)
            /\ \A x \in terms : ~RatLess(ret[1], x)
            /\ OccursIn(q, toLowerCase(book.title)) => ScoreIs(ret[1], 200)
            /\ \A x \in authorTerms : ~RatLess(<<100, 1>>, x)
            /\ book.authors = <<>> => RatEq(ret[1], title2)

\* C18 witness: the query 'em' matched the author 'Emma Dune' as a substring
\* (100) and the title 'Dune' by one character of two (2 x 50); the score is 100.
C18_Witness ==
    /\ call # None /\ call[1].fn = "calculateMatchScore" /\ ret # None
    /\ call[1].arg.query = <<"e", "m">>
    /\ call[1].arg.book.title = StrDune
    /\ call[1].arg.book.authors = <<StrEmmaDune, StrAl>>
    /\ ScoreIs(fuzzyMatch(<<"e", "m">>, toLowerCase(StrDune)), 50)
    /\ ScoreIs(ret[1], 100)

\* C19: applyFuzzyFilter returns the candidates scoring 30 or more, sorted by
\* descending score and cut to the first 8: every returned entry is a candidate
\* with its score, the scores do not increase, the length is the number of
\* candidates scoring 30 or more (8 at most), and a candidate scoring 30 or more
\* is missing only when 8 entries that score no less were returned.
C19_ThresholdSortTruncate ==
    (call # None /\ call[1].fn = "applyFuzzyFilter" /\ ret # None) =>
        LET books == call[1].arg.books
            query == call[1].arg.query
            out == ret[1]
            Score(b) == calculateMatchScore(b, query)
            surviving == { i \in DOMAIN books : ~RatLess(Score(books[i]), <<30, 1>>) }
        IN  /\ \A k \in DOMAIN out :
                  /\ \E i \in surviving : out[k].book = books[i]
                  /\ RatEq(out[k].score, Score(out[k].book))
            /\ \A k \in 1..(Len(out) - 1) : ~RatLess(out[k].score, out[k + 1].score)
            /\ Len(out) = IF Cardinality(surviving) < 8 THEN Cardinality(surviving) ELSE 8
            /\ \A i \in surviving :
                  \/ \E k \in DOMAIN out : out[k].book = books[i]
                  \/ Len(out) = 8 /\ ~RatLess(out[8].score, Score(books[i]))

ScoreCategory(score) ==
    IF score >= 5 THEN "high" ELSE IF score >= 3 THEN "medium"
    ELSE IF score >= 1 THEN "low" ELSE "invalid"

\* C21: the reliability of a candidate is the category of 2 for a title longer
\* than one character other than 'Unknown Title', plus 2 for at least one author,
\* plus 3 when the candidate's publishYear is present, minus 2 when the lowercased
\* title contains 'unknown' or is shorter than 3 characters.
C21_ReliabilityScore ==
    (call # None /\ call[1].fn = "OpenLibraryCandidate" /\ ret # None) =>
        LET book == call[1].arg
            t == IF book.title = None THEN <<>> ELSE book.title[1]
            titlePoints == IF Len(t) > 1 /\ t # UnknownTitle THEN 2 ELSE 0
            authorPoints == IF book.author_name # None /\ book.author_name[1] # <<>>
                            THEN 2 ELSE 0
            yearPoints == IF ret[1].publishYear # None THEN 3 ELSE 0
            penalty == IF OccursIn(StrUnknown, toLowerCase(t)) \/ Len(t) < 3 THEN 2 ELSE 0
        IN  ret[1].reliability =
               ScoreCategory(titlePoints + authorPoints + yearPoints - penalty)

\* C21 witness: 'Cthulhu' by one author with first_publish_year 1950: the year is
\* discarded by the context check, so the score is 4 and the candidate is medium.
C21_Witness ==
    /\ call # None /\ call[1].fn = "OpenLibraryCandidate" /\ ret # None
    /\ call[1].arg.title = Some(StrCthulhuTitle)
    /\ call[1].arg.author_name = Some(<<StrAl>>)
    /\ call[1].arg.first_publish_year = Some(1950)
    /\ call[1].arg.publish_year = None
    /\ ret[1].publishYear = None
    /\ ret[1].reliability = "medium"

\* C22: the publishYear of a Gutenberg candidate is (death year - 10) for a known
\* death year before 1929 of one of the record's authors, at whatever position,
\* and absent when no author of the record has such a death year.
C22_YearFromAnyAuthor ==
    (call # None /\ call[1].fn = "GutenbergCandidate" /\ ret # None) =>
        LET book == call[1].arg
            persons == IF book.authors = None THEN {} ELSE Range(book.authors[1])
            early == { p.death_year[1] : p \in { x \in persons :
                          x.death_year # None /\ x.death_year[1] < 1929 } }
        IN  IF early = {} THEN ret[1].publishYear = None
            ELSE \E d \in early : ret[1].publishYear = Some(d - 10)

\* the first k characters of needle occur in haystack in their order, not
\* necessarily next to each other
PrefixIsSubsequence(needle, haystack, k) ==
    \E f \in [1..k -> DOMAIN haystack] :
        /\ \A i \in 1..k : haystack[f[i]] = needle[i]
        /\ \A i \in 1..(k - 1) : f[i] < f[i + 1]

\* the number of needle characters a greedy left-to-right pass matches: the
\* length of the longest prefix of needle that is a subsequence of haystack
GreedyMatched(needle, haystack) ==
    CHOOSE k \in 0..Len(needle) :
        /\ PrefixIsSubsequence(needle, haystack, k)
        /\ \A m \in (k + 1)..Len(needle) : ~PrefixIsSubsequence(needle, haystack, m)

\* C23: when needle is no substring of haystack, fuzzyMatch is the number of
\* greedily matched needle characters over the length of needle, times 100; the
\* result is a number in [0, 100] for every pair, the empty needle included.
C23_GreedyRatio ==
    (call # None /\ call[1].fn = "fuzzyMatch" /\ ret # None) =>
        LET needle == call[1].arg.needle
            haystack == call[1].arg.haystack
        IN  /\ ret[1][2] # 0
            /\ ~RatLess(ret[1], <<0, 1>>) /\ ~RatLess(<<100, 1>>, ret[1])
            /\ ~OccursIn(needle, haystack) =>
                  ret[1][1] * Len(needle) = GreedyMatched(needle, haystack) * 100 * ret[1][2]

\* C23 witness: fuzzyMatch("dD", "dud") matched one character of two and
\* returned 50.
C23_Witness ==
    /\ call # None /\ call[1].fn = "fuzzyMatch" /\ ret # None
    /\ call[1].arg.needle = <<"d", "D">> /\ call[1].arg.haystack = <<"d", "u", "d">>
    /\ ~OccursIn(call[1].arg.needle, call[1].arg.haystack)
    /\ GreedyMatched(call[1].arg.needle, call[1].arg.haystack) = 1
    /\ ScoreIs(ret[1], 50)

\* C24: a searchBooks call that a later call has aborted leaves the cache
\* unchanged when it settles.
C24_CancelledStoresNothing ==
    [][\A sid \in DOMAIN searches :
          (/\ sid \in aborted
           /\ searches[sid].stored = None
           /\ searches'[sid].stored # None) => cache' = cache]_vars

\* C25: the list searchBooks hands to deduplicateBooks is the Gutenberg candidates
\* followed by the Open Library candidates and is ordered by non-increasing
\* reliability; no entry is high while the first entry with its key is not, so
\* the result is the first occurrence of every key, cut to the limit, and no
\* Open Library entry is returned for a key a Gutenberg entry has.
C25_FirstOccurrenceWins ==
    (returned # None /\ ~Returned.fromCache) =>
        LET books == Returned.g.value \o Returned.ol.value
            SameKey(i, j) == DedupKey(books[i]) = DedupKey(books[j])
            IsFirst(i) == \A j \in 1..(i - 1) : ~SameKey(i, j)
            firsts == SelectSeq([i \in DOMAIN books |-> i], IsFirst)
            kept == [ n \in DOMAIN firsts |-> books[firsts[n]] ]
        IN  /\ \A i, j \in DOMAIN books :
                  i < j => ReliabilityRank(books[i].reliability)
                              >= ReliabilityRank(books[j].reliability)
            /\ \A i, j \in DOMAIN books :
                  (i < j /\ SameKey(i, j)) =>
                     ~(books[j].reliability = "high" /\ books[i].reliability # "high")
            /\ Returned.value = slice(kept, searches[Returned.sid].limit)
            /\ \A k \in DOMAIN Returned.value :
                  Returned.value[k].source = "openlibrary" =>
                     \A i \in DOMAIN Returned.g.value :
                        DedupKey(Returned.g.value[i]) # DedupKey(Returned.value[k])

\* C25 witness: Gutenberg and Open Library both delivered 'Emma' with the same
\* key, the Open Library one as low; the Gutenberg candidate was returned and the
\* Open Library one was not.
C25_Witness ==
    /\ returned # None /\ ~Returned.fromCache
    /\ \E i \in DOMAIN Returned.g.value : \E j \in DOMAIN Returned.ol.value :
          /\ DedupKey(Returned.g.value[i]) = DedupKey(Returned.ol.value[j])
          /\ Returned.ol.value[j].reliability = "low"
          /\ \E k \in DOMAIN Returned.value : Returned.value[k] = Returned.g.value[i]
          /\ \A k \in DOMAIN Returned.value : Returned.value[k] # Returned.ol.value[j]
    /\ Len(Returned.value) = 2

\* C26: the loading indicator is on whenever a performSearch call has not yet
\* resumed behind its await of searchBooks.
C26_LoadingWhileInFlight ==
    (\E sid \in DOMAIN searches : searches[sid].ui /\ searches[sid].phase # "done")
        => loading

====
